---- MODULE Spec2Model ----
(***************************************************************************)
(* Model of src/flask_app.py: a Flask gateway that forwards requests to    *)
(* two upstream extraction services and answers a composite health check.  *)
(*                                                                         *)
(* Strings stand for Python values; "<None>" is Python's None.  A JSON     *)
(* document is a record of fixed shape (Doc), an HTTP body is a record     *)
(* [fmt, doc, text] (the bytes on the wire: a JSON document in a given     *)
(* formatting, or non-JSON text).                                          *)
(***************************************************************************)
EXTENDS Integers, Sequences, FiniteSets, TLC

VARIABLES environ, proc, TWEET_EXTRACTOR_URL, EXTRACTORT_URL,
          json_error_class, request, pc, calls, response,
          backend_status, extractort_status, reply

vars == <<environ, proc, TWEET_EXTRACTOR_URL, EXTRACTORT_URL,
          json_error_class, request, pc, calls, response,
          backend_status, extractort_status, reply>>

\* ------------------------------------------------------------------ bounds
MaxLatencySteps == 1
LatencyStep == 1256
\* latencies of a probe, in microseconds
Latencies == {k * LatencyStep : k \in 0..MaxLatencySteps}

\* the two handler slots (two slots are what a comparison of two requests needs)
Requests == {"r1", "r2"}

None == "<None>"

\* ------------------------------------------------------- program constants
DEFAULT_MAX_TWEETS == 30
DEFAULT_MIN_TWEETS == 10
DEFAULT_MAX_SCROLLS == 10
TIMEOUT_EXTRACT == 15
TIMEOUT_EXTRACT_BATCH == 30
TIMEOUT_EXTRACTT == 30
TIMEOUT_HEALTH == 5

\* ------------------------------------------------------------ JSON values
NoMsg == [text |-> "", code |-> 0, exc |-> ""]

\* absent document (no JSON value at all)
NoDoc == [type |-> "none", keys |-> {}, status |-> "", service |-> "",
          message |-> NoMsg, response_time |-> 0, payload |-> ""]

OkDoc == [NoDoc EXCEPT !.type = "object", !.keys = {"status"}, !.status = "ok"]

\* a JSON array: valid JSON that is not an object
ArrayDoc == [NoDoc EXCEPT !.type = "array", !.payload = "[]"]

TweetsDoc == [NoDoc EXCEPT !.type = "object", !.keys = {"status", "payload"},
                           !.status = "success", !.payload = "tweets"]

UpstreamErrorDoc == [NoDoc EXCEPT !.type = "object", !.keys = {"status", "payload"},
                                  !.status = "error", !.payload = "detail"]

\* {"status": "error", "message": f"{text}{code or exception}"}
ErrorDoc(text, code, exc) ==
    [NoDoc EXCEPT !.type = "object", !.keys = {"status", "message"},
                  !.status = "error",
                  !.message = [text |-> text, code |-> code, exc |-> exc]]

\* d[key] = value on a dict d (the "response_time" key only)
SetResponseTime(d, v) ==
    [d EXCEPT !.keys = d.keys \cup {"response_time"}, !.response_time = v]

\* ------------------------------------------------------------ HTTP bodies
NoBody == [fmt |-> "empty", doc |-> NoDoc, text |-> ""]
JsonBody(fmt, d) == [fmt |-> fmt, doc |-> d, text |-> ""]
TextBody(t) == [fmt |-> "text", doc |-> NoDoc, text |-> t]

\* Response.json() succeeds exactly on bodies that are JSON text
IsJson(b) == b.fmt \in {"compact", "spaced"}
\* Response.json(): the decoded document
json(b) == b.doc
\* flask.jsonify(d): the document re-encoded in Flask's own formatting
jsonify(d) == JsonBody("compact", d)

\* round() replaced by truncation
round_truncating(us) == us \div 10

\* round(seconds * 1000, 2): microseconds to hundredths of a millisecond,
\* rounding half to even
round(us) ==
    LET q == us \div 10
        m == us % 10
    IN  IF m > 5 \/ (m = 5 /\ q % 2 = 1) THEN q + 1 ELSE q

\* ------------------------------------------------- what an upstream answers
NoOutcome == [kind |-> "none", status |-> 0, body |-> NoBody, ctype |-> None,
              exc |-> "", latency |-> 0]

HttpResponse(status, body, ctype) ==
    [kind |-> "response", status |-> status, body |-> body, ctype |-> ctype,
     exc |-> "", latency |-> 0]

\* the call raised a requests.RequestException of class exc
Raised(exc) == [NoOutcome EXCEPT !.kind = "failure", !.exc = exc]

UpstreamResponses ==
    { HttpResponse(200, JsonBody("compact", OkDoc), "application/json"),
      HttpResponse(200, JsonBody("spaced", TweetsDoc), "application/json"),
      HttpResponse(200, JsonBody("compact", ArrayDoc), "application/json"),
      HttpResponse(200, TextBody("<html>"), "text/html"),
      HttpResponse(503, JsonBody("compact", UpstreamErrorDoc), "application/json"),
      HttpResponse(502, TextBody("Bad Gateway"), None) }

TransportErrors == {"ConnectionError", "Timeout"}

\* outcomes of one outbound call
Outcomes == UpstreamResponses \cup {Raised(e) : e \in TransportErrors}

\* outcomes of one timed probe: a response after some latency, or a failure
ProbeOutcomes ==
    {[o EXCEPT !.latency = l] : o \in UpstreamResponses, l \in Latencies}
      \cup {Raised(e) : e \in TransportErrors}

\* ------------------------------------------------------- inbound requests
ParamNames == {"max_tweets", "min_tweets", "max_scrolls"}
QueryValues == {"7", "abc"}
NoArgs == [n \in ParamNames |-> None]
\* request.args: each parameter absent (None) or supplied with a string
QueryArgs == [ParamNames -> QueryValues \cup {None}]
PathArgs == {"foo", "bar"}

RequestDoc == [NoDoc EXCEPT !.type = "object", !.keys = {"payload"}, !.payload = "url"]
\* bodies of an inbound POST: JSON text, or text that is not JSON
InboundBodies == {JsonBody("spaced", RequestDoc), TextBody("{bad")}

NoRequest == [route |-> "none", body |-> NoBody, arg |-> "", args |-> NoArgs]

ProxyRoutes == {"extract", "extract_batch", "extract_hashtag", "extract_user"}

InboundRequests ==
    {[NoRequest EXCEPT !.route = "index"], [NoRequest EXCEPT !.route = "health_check"]}
      \cup {[NoRequest EXCEPT !.route = rt, !.body = b] :
               rt \in {"extract", "extract_batch"}, b \in InboundBodies}
      \cup {[NoRequest EXCEPT !.route = rt, !.arg = a, !.args = q] :
               rt \in {"extract_hashtag", "extract_user"}, a \in PathArgs, q \in QueryArgs}

\* a supplied value that is not a number is replaced by the default
args_get_validating(args, name, default) ==
    IF args[name] # None /\ args[name] # "abc" THEN args[name] ELSE ToString(default)

\* request.args.get(name, default), as requests puts it in the query string
\* (a supplied value is a string already, the integer default is str()-ed)
args_get(args, name, default) ==
    IF args[name] # None THEN args[name] ELSE ToString(default)

\* ------------------------------------------------------- outbound calls
OutboundCall(method, base, path, arg, body, ctype, params, timeout, o) ==
    [method |-> method, base |-> base, path |-> path, arg |-> arg,
     body |-> body, ctype |-> ctype, params |-> params, timeout |-> timeout,
     outcome |-> o]

\* -------------------------------------------------------------- replies
NoReply == [status |-> 0, body |-> NoBody, ctype |-> None, fault |-> FALSE,
            proxy |-> NoDoc, backend |-> NoDoc, extractorT |-> NoDoc]

\* return jsonify(d), status
JsonReply(d, status) ==
    [NoReply EXCEPT !.status = status, !.body = jsonify(d), !.ctype = "application/json"]

\* an exception left the handler: Flask answers 500 Internal Server Error
Fault == [NoReply EXCEPT !.status = 500, !.body = TextBody("Internal Server Error"),
                         !.ctype = "text/html", !.fault = TRUE]

\* request.json raised werkzeug's BadRequest, which Flask renders as 400
BadRequest == [NoReply EXCEPT !.status = 400, !.body = TextBody("Bad Request"),
                              !.ctype = "text/html"]

\* ------------------------------------------------------------------ Init
Init ==
    /\ environ \in [TWEET_EXTRACTOR_URL : {None, "", "http://extractor"},
                    EXTRACTORT_URL : {None, "", "http://extractorT"}]
    /\ json_error_class \in {"RequestsJSONDecodeError", "ValueError"}
    /\ proc = "boot"
    /\ TWEET_EXTRACTOR_URL = None
    /\ EXTRACTORT_URL = None
    /\ request = [r \in Requests |-> NoRequest]
    /\ pc = [r \in Requests |-> "idle"]
    /\ calls = [r \in Requests |-> <<>>]
    /\ response = [r \in Requests |-> NoOutcome]
    /\ backend_status = [r \in Requests |-> NoDoc]
    /\ extractort_status = [r \in Requests |-> NoDoc]
    /\ reply = [r \in Requests |-> NoReply]

\* "if URL is None": the empty string passes
Missing_only_none(url) == url = None

\* "if not URL": None and the empty string are both falsy
Missing(url) == url = None \/ url = ""

\* module import, lines 15-22
Startup ==
    /\ proc = "boot"
    /\ TWEET_EXTRACTOR_URL' = environ.TWEET_EXTRACTOR_URL
    /\ EXTRACTORT_URL' = environ.EXTRACTORT_URL
    /\ proc' = IF Missing(environ.TWEET_EXTRACTOR_URL) \/ Missing(environ.EXTRACTORT_URL)
               THEN "failed" ELSE "serving"
    /\ UNCHANGED <<environ, json_error_class, request, pc, calls, response,
                   backend_status, extractort_status, reply>>

Config == <<environ, proc, TWEET_EXTRACTOR_URL, EXTRACTORT_URL, json_error_class>>

\* Flask dispatches an inbound request to its handler
Dispatch(r, routes) ==
    /\ proc = "serving"
    /\ pc[r] = "idle"
    /\ \E q \in InboundRequests :
          /\ q.route \in routes
          /\ request' = [request EXCEPT ![r] = q]
    /\ pc' = [pc EXCEPT ![r] = "handler"]
    /\ UNCHANGED <<Config, calls, response, backend_status, extractort_status, reply>>

\* the reply has been sent; nothing of the request outlives it
Close(r) ==
    /\ pc[r] = "done"
    /\ pc' = [pc EXCEPT ![r] = "idle"]
    /\ request' = [request EXCEPT ![r] = NoRequest]
    /\ calls' = [calls EXCEPT ![r] = <<>>]
    /\ response' = [response EXCEPT ![r] = NoOutcome]
    /\ backend_status' = [backend_status EXCEPT ![r] = NoDoc]
    /\ extractort_status' = [extractort_status EXCEPT ![r] = NoDoc]
    /\ reply' = [reply EXCEPT ![r] = NoReply]
    /\ UNCHANGED Config

\* return from the handler with reply rp
Return(r, rp) ==
    /\ reply' = [reply EXCEPT ![r] = rp]
    /\ pc' = [pc EXCEPT ![r] = "done"]

\* GET /, lines 24-37
index(r) ==
    /\ pc[r] = "handler"
    /\ request[r].route = "index"
    /\ Return(r, JsonReply([NoDoc EXCEPT !.type = "object",
                                         !.keys = {"name", "description", "endpoints"},
                                         !.service = "Tweet Extractor API Gateway"], 200))
    /\ UNCHANGED <<Config, request, calls, response, backend_status, extractort_status>>

\* "except requests.ConnectionError": a timeout is not caught
IsRequestException_connection_only(exc) ==
    exc \in {"ConnectionError", "RequestsJSONDecodeError"}

\* "except requests.RequestException": the classes the handlers catch.
\* Response.json() raises json_error_class on a body that is not JSON:
\* requests.JSONDecodeError (a RequestException) from requests 2.27 on, a
\* plain ValueError before; the repository pins no version.
IsRequestException(exc) ==
    exc \in {"ConnectionError", "Timeout", "RequestsJSONDecodeError"}

\* lines 52-58 and 73-79: what extract / extract_batch return for outcome o
PostReply(o) ==
    IF o.kind = "failure"
    THEN IF IsRequestException(o.exc)
         THEN JsonReply(ErrorDoc("Failed to connect to the backend service: ", 0, o.exc), 500)
         ELSE Fault
    ELSE IF IsJson(o.body)
         THEN JsonReply(json(o.body), o.status)
         ELSE IF IsRequestException(json_error_class)
              THEN JsonReply(ErrorDoc("Failed to connect to the backend service: ", 0,
                                      json_error_class), 500)
              ELSE Fault

\* lines 102-108 and 131-137: what extract_hashtag / extract_user return
GetReply(o) ==
    IF o.kind = "failure"
    THEN IF IsRequestException(o.exc)
         THEN JsonReply(ErrorDoc("Failed to connect to the ExtractorT service: ", 0, o.exc), 500)
         ELSE Fault
    ELSE [NoReply EXCEPT !.status = o.status, !.body = o.body, !.ctype = o.ctype]

\* requests.post(f"{base}{path}", json=request.json, headers=..., timeout=...)
PostCall(r, base, path, timeout) ==
    /\ pc[r] = "handler"
    /\ IF ~IsJson(request[r].body)
       THEN \* request.json raises BadRequest before anything is sent
            /\ Return(r, BadRequest)
            /\ UNCHANGED <<calls, response>>
       ELSE \E o \in Outcomes :
            /\ calls' = [calls EXCEPT ![r] =
                  Append(@, OutboundCall("POST", base, path, "",
                                         jsonify(json(request[r].body)),
                                         "application/json", NoArgs, timeout, o))]
            /\ response' = [response EXCEPT ![r] = o]
            /\ pc' = [pc EXCEPT ![r] = "called"]
            /\ UNCHANGED reply
    /\ UNCHANGED <<Config, request, backend_status, extractort_status>>

PostReturn(r) ==
    /\ pc[r] = "called"
    /\ Return(r, PostReply(response[r]))
    /\ UNCHANGED <<Config, request, calls, response, backend_status, extractort_status>>

\* requests.get(f"{base}{path}{arg}", params={...}, timeout=...)
GetCall(r, base, path, timeout) ==
    /\ pc[r] = "handler"
    /\ LET params == [max_tweets |-> args_get(request[r].args, "max_tweets", DEFAULT_MAX_TWEETS),
                      min_tweets |-> args_get(request[r].args, "min_tweets", DEFAULT_MIN_TWEETS),
                      max_scrolls |-> args_get(request[r].args, "max_scrolls", DEFAULT_MAX_SCROLLS)]
       IN \E o \in Outcomes :
            /\ calls' = [calls EXCEPT ![r] =
                  Append(@, OutboundCall("GET", base, path, request[r].arg,
                                         NoBody, None, params, timeout, o))]
            /\ response' = [response EXCEPT ![r] = o]
    /\ pc' = [pc EXCEPT ![r] = "called"]
    /\ UNCHANGED <<Config, request, backend_status, extractort_status, reply>>

GetReturn(r) ==
    /\ pc[r] = "called"
    /\ Return(r, GetReply(response[r]))
    /\ UNCHANGED <<Config, request, calls, response, backend_status, extractort_status>>

\* /extract forwarded to the other upstream
extract_to_extractort(r) ==
    /\ request[r].route = "extract"
    /\ \/ PostCall(r, EXTRACTORT_URL, "/extract", TIMEOUT_EXTRACT)
       \/ PostReturn(r)

\* POST /extract, lines 39-58
extract(r) ==
    /\ request[r].route = "extract"
    /\ \/ PostCall(r, TWEET_EXTRACTOR_URL, "/extract", TIMEOUT_EXTRACT)
       \/ PostReturn(r)

\* POST /extract-batch, lines 60-79
extract_batch(r) ==
    /\ request[r].route = "extract_batch"
    /\ \/ PostCall(r, TWEET_EXTRACTOR_URL, "/extract-batch", TIMEOUT_EXTRACT_BATCH)
       \/ PostReturn(r)

\* GET /extractT/hashtag/<hashtag>, lines 81-108
extract_hashtag(r) ==
    /\ request[r].route = "extract_hashtag"
    /\ \/ GetCall(r, EXTRACTORT_URL, "/extract/hashtag/", TIMEOUT_EXTRACTT)
       \/ GetReturn(r)

\* GET /extractT/user/<username>, lines 110-137
extract_user(r) ==
    /\ request[r].route = "extract_user"
    /\ \/ GetCall(r, EXTRACTORT_URL, "/extract/user/", TIMEOUT_EXTRACTT)
       \/ GetReturn(r)

\* One try block of health_check (lines 143-157, 160-174) on probe outcome o:
\* the status object it builds, or raised = TRUE when an exception leaves it.
ProbeStatus(o, codeText, failText) ==
    IF o.kind = "failure"
    THEN IF IsRequestException(o.exc)
         THEN [raised |-> FALSE, doc |-> ErrorDoc(failText, 0, o.exc)]
         ELSE [raised |-> TRUE, doc |-> NoDoc]
    ELSE IF o.status = 200
         THEN IF ~IsJson(o.body)
              THEN IF IsRequestException(json_error_class)
                   THEN [raised |-> FALSE, doc |-> ErrorDoc(failText, 0, json_error_class)]
                   ELSE [raised |-> TRUE, doc |-> NoDoc]
              ELSE IF json(o.body).type # "object"
                   \* status["response_time"] = ... on a list, str, number or None: TypeError
                   THEN [raised |-> TRUE, doc |-> NoDoc]
                   ELSE [raised |-> FALSE,
                         doc |-> SetResponseTime(json(o.body), round(o.latency))]
         ELSE [raised |-> FALSE,
               doc |-> SetResponseTime(ErrorDoc(codeText, o.status, ""), round(o.latency))]

HealthCall(base, o) ==
    OutboundCall("GET", base, "/health", "", NoBody, None, NoArgs, TIMEOUT_HEALTH, o)

\* lines 143-157
probe_backend(r) ==
    /\ pc[r] = "handler"
    /\ \E o \in ProbeOutcomes :
         LET st == ProbeStatus(o, "Backend returned status code ",
                                  "Failed to connect to backend: ")
         IN /\ calls' = [calls EXCEPT ![r] = Append(@, HealthCall(TWEET_EXTRACTOR_URL, o))]
            /\ response' = [response EXCEPT ![r] = o]
            /\ IF st.raised
               THEN Return(r, Fault) /\ UNCHANGED backend_status
               ELSE /\ backend_status' = [backend_status EXCEPT ![r] = st.doc]
                    /\ pc' = [pc EXCEPT ![r] = "probe2"]
                    /\ UNCHANGED reply
    /\ UNCHANGED <<Config, request, extractort_status>>

\* lines 160-174
probe_extractort(r) ==
    /\ pc[r] = "probe2"
    /\ \E o \in ProbeOutcomes :
         LET st == ProbeStatus(o, "ExtractorT returned status code ",
                                  "Failed to connect to ExtractorT: ")
         IN /\ calls' = [calls EXCEPT ![r] = Append(@, HealthCall(EXTRACTORT_URL, o))]
            /\ response' = [response EXCEPT ![r] = o]
            /\ IF st.raised
               THEN Return(r, Fault) /\ UNCHANGED extractort_status
               ELSE /\ extractort_status' = [extractort_status EXCEPT ![r] = st.doc]
                    /\ pc' = [pc EXCEPT ![r] = "merge"]
                    /\ UNCHANGED reply
    /\ UNCHANGED <<Config, request, backend_status>>

\* the gateway's own section, lines 177-181 (the timestamp's value is the
\* wall clock's and is left out)
proxy_status ==
    [NoDoc EXCEPT !.type = "object", !.keys = {"status", "service", "timestamp"},
                  !.status = "healthy", !.service = "tweet-extractor-proxy"]

\* lines 176-187
merge(r) ==
    /\ pc[r] = "merge"
    /\ Return(r, [JsonReply([NoDoc EXCEPT !.type = "object",
                                          !.keys = {"proxy", "backend", "extractorT"}], 200)
                    EXCEPT !.proxy = proxy_status,
                           !.backend = backend_status[r],
                           !.extractorT = extractort_status[r]])
    /\ UNCHANGED <<Config, request, calls, response, backend_status, extractort_status>>

\* GET /health, lines 139-187
health_check(r) ==
    /\ request[r].route = "health_check"
    /\ \/ probe_backend(r)
       \/ probe_extractort(r)
       \/ merge(r)

AllRoutes == ProxyRoutes \cup {"index", "health_check"}

Handler(r) ==
    \/ index(r)
    \/ extract(r)
    \/ extract_batch(r)
    \/ extract_hashtag(r)
    \/ extract_user(r)
    \/ health_check(r)

\* one request at a time, any route
Next ==
    \/ Startup
    \/ Dispatch("r1", AllRoutes)
    \/ Handler("r1")
    \/ Close("r1")

Spec == Init /\ [][Next]_vars

\* two GET /health requests in flight at once
HealthNext ==
    \/ Startup
    \/ \E r \in Requests : Dispatch(r, {"health_check"})
    \/ \E r \in Requests : health_check(r)
    \/ \E r \in Requests : Close(r)

HealthSpec == Init /\ [][HealthNext]_vars

\* ---------------------------------------------------------------- claims
Done(r) == pc[r] = "done"
PostRoutes == {"extract", "extract_batch"}
GetRoutes == {"extract_hashtag", "extract_user"}
\* the upstream's answer to the i-th outbound call of request r
OutcomeOf(r, i) == calls[r][i].outcome
\* two bodies carry the same content: the same bytes, or the same JSON value
SameContent(a, b) == a = b \/ (IsJson(a) /\ IsJson(b) /\ json(a) = json(b))

\* C1: on the four proxy routes, whenever the upstream answers with status S
\* and body B, the reply has status S and body B (the same JSON value on the
\* POST routes, the same bytes and Content-Type on the /extractT routes).
C1_RelaysEveryResponse ==
    \A r \in Requests :
        (Done(r) /\ request[r].route \in ProxyRoutes /\ Len(calls[r]) = 1
                 /\ OutcomeOf(r, 1).kind = "response")
        => /\ reply[r].status = OutcomeOf(r, 1).status
           /\ SameContent(reply[r].body, OutcomeOf(r, 1).body)
           /\ request[r].route \in GetRoutes
                 => /\ reply[r].body = OutcomeOf(r, 1).body
                    /\ reply[r].ctype = OutcomeOf(r, 1).ctype

\* C2: on the four proxy routes a transport failure of the outbound call
\* (timeout included) is answered with status 500 and a JSON body whose
\* status is "error" and whose message starts with the route's "Failed to
\* connect" text; it never leaves the handler as a fault.
C2_TransportFailureIs500Json ==
    \A r \in Requests :
        (Done(r) /\ request[r].route \in ProxyRoutes /\ Len(calls[r]) = 1
                 /\ OutcomeOf(r, 1).kind = "failure")
        => /\ reply[r].status = 500
           /\ ~reply[r].fault
           /\ IsJson(reply[r].body)
           /\ reply[r].ctype = "application/json"
           /\ json(reply[r].body).status = "error"
           /\ json(reply[r].body).keys = {"status", "message"}
           /\ json(reply[r].body).message.exc = OutcomeOf(r, 1).exc
           /\ json(reply[r].body).message.text =
                 IF request[r].route \in PostRoutes
                 THEN "Failed to connect to the backend service: "
                 ELSE "Failed to connect to the ExtractorT service: "

C2_Witness ==
    \E r \in Requests :
        /\ Done(r) /\ request[r].route = "extract_hashtag" /\ Len(calls[r]) = 1
        /\ OutcomeOf(r, 1).kind = "failure" /\ OutcomeOf(r, 1).exc = "Timeout"
        /\ reply[r].status = 500

\* C3: GET /health always answers 200, whatever the two probes' outcomes.
C3_HealthAlways200 ==
    \A r \in Requests :
        (Done(r) /\ request[r].route = "health_check") => reply[r].status = 200

\* the probe sections of a finished health request, in probe order
Section(r, i) == IF i = 1 THEN reply[r].backend ELSE reply[r].extractorT
HealthReported(r) ==
    Done(r) /\ request[r].route = "health_check" /\ ~reply[r].fault
\* v (hundredths of a millisecond) is latency us (microseconds) rounded
IsRounded(v, us) == 10 * v - us \in -5..5

\* C4 as stated: in every GET /health response both probe status objects
\* carry response_time, the probe's measured latency, for every outcome.
C4_ResponseTimeAlways ==
    \A r \in Requests : HealthReported(r) =>
        \A i \in 1..2 :
            /\ "response_time" \in Section(r, i).keys
            /\ IsRounded(Section(r, i).response_time, OutcomeOf(r, i).latency)

\* C4 amended: a probe status object built from an HTTP response (200 with a
\* JSON object body, or any other status code) carries response_time, the
\* latency in ms rounded to 2 decimals; the "Failed to connect" object
\* synthesized in the except branch carries none.
C4_ResponseTimeOnHttpResponse ==
    \A r \in Requests : HealthReported(r) =>
        \A i \in 1..2 :
            LET o == OutcomeOf(r, i)
                built == o.kind = "response" /\ (o.status = 200 => IsJson(o.body))
            IN /\ built => /\ "response_time" \in Section(r, i).keys
                           /\ IsRounded(Section(r, i).response_time, o.latency)
               /\ ~built => "response_time" \notin Section(r, i).keys

C4_Witness ==
    \E r \in Requests :
        /\ HealthReported(r)
        /\ OutcomeOf(r, 1).kind = "failure"
        /\ "response_time" \notin reply[r].backend.keys
        /\ OutcomeOf(r, 2).kind = "response" /\ OutcomeOf(r, 2).status = 503
        /\ OutcomeOf(r, 2).latency > 0
        /\ reply[r].extractorT.response_time > 0

\* C5: the section a health response reports for one upstream depends only
\* on that upstream's probe outcome: two health requests whose probes of an
\* upstream had the same outcome report the same section for it.
C5_ProbesIsolated ==
    \A r1, r2 \in Requests :
        (/\ Done(r1) /\ request[r1].route = "health_check"
         /\ Done(r2) /\ request[r2].route = "health_check")
        => \A i \in 1..2 :
              (/\ Len(calls[r1]) >= i /\ Len(calls[r2]) >= i
               /\ OutcomeOf(r1, i) = OutcomeOf(r2, i))
              => Section(r1, i) = Section(r2, i)

\* a status object without the response_time entry added by the gateway
Untimed(d) == [d EXCEPT !.keys = d.keys \ {"response_time"}, !.response_time = 0]

\* C6: each probe's status object is the upstream's decoded JSON body on
\* HTTP 200, a synthesized error naming the status code on any other status
\* (the upstream's body is not relayed), and a synthesized "Failed to
\* connect" error on network failure.
C6_StatusObjectPerOutcome ==
    \A r \in Requests : (Done(r) /\ request[r].route = "health_check") =>
        \A i \in 1..Len(calls[r]) :
            LET o == OutcomeOf(r, i)
                d == Section(r, i)
            IN /\ (o.kind = "response" /\ o.status = 200 /\ IsJson(o.body))
                     => Untimed(d) = json(o.body)
               /\ (o.kind = "response" /\ o.status # 200)
                     => /\ d.status = "error"
                        /\ d.message.code = o.status
                        /\ d.message.text = IF i = 1 THEN "Backend returned status code "
                                                     ELSE "ExtractorT returned status code "
                        /\ d.payload = ""
               /\ o.kind = "failure"
                     => /\ d.status = "error"
                        /\ d.message.text = IF i = 1 THEN "Failed to connect to backend: "
                                                     ELSE "Failed to connect to ExtractorT: "

\* C7: with either URL missing at process start nothing is ever served; while
\* a request is handled both URLs are set and are the values read at startup,
\* and no step of a serving process changes them.
C7_Configured ==
    /\ (environ.TWEET_EXTRACTOR_URL \in {None, ""} \/ environ.EXTRACTORT_URL \in {None, ""})
          => /\ proc # "serving"
             /\ \A r \in Requests : pc[r] = "idle" /\ reply[r] = NoReply
    /\ \A r \in Requests : pc[r] # "idle" =>
          /\ proc = "serving"
          /\ TWEET_EXTRACTOR_URL = environ.TWEET_EXTRACTOR_URL
          /\ EXTRACTORT_URL = environ.EXTRACTORT_URL
          /\ TWEET_EXTRACTOR_URL \notin {None, ""}
          /\ EXTRACTORT_URL \notin {None, ""}

C7_UrlsImmutable ==
    /\ []C7_Configured
    /\ [][proc = "serving" =>
            /\ TWEET_EXTRACTOR_URL' = TWEET_EXTRACTOR_URL
            /\ EXTRACTORT_URL' = EXTRACTORT_URL
            /\ environ' = environ]_vars

C7_Witness ==
    \E r \in Requests :
        /\ Done(r) /\ Len(calls[r]) = 1
        /\ calls[r][1].base = "http://extractorT"

\* the default of each query parameter, as it appears in a query string
DefaultText(n) == IF n = "max_tweets" THEN "30" ELSE "10"

\* C8: on the two /extractT routes the outbound call carries, for each of
\* max_tweets, min_tweets and max_scrolls independently, the inbound value
\* verbatim if supplied and otherwise the default 30, 10, 10.
C8_QueryParamsForwarded ==
    \A r \in Requests :
        (request[r].route \in GetRoutes /\ Len(calls[r]) >= 1) =>
            \A n \in ParamNames :
                calls[r][1].params[n] =
                    IF request[r].args[n] # None THEN request[r].args[n]
                                                 ELSE DefaultText(n)

C8_Witness ==
    \E r \in Requests :
        /\ request[r].route = "extract_user" /\ Len(calls[r]) = 1
        /\ request[r].args = [max_tweets |-> "abc", min_tweets |-> None, max_scrolls |-> "7"]
        /\ calls[r][1].params = [max_tweets |-> "abc", min_tweets |-> "10", max_scrolls |-> "7"]

\* the upstream and path a proxy route forwards to
ExpectedBase(route) ==
    IF route \in PostRoutes THEN environ.TWEET_EXTRACTOR_URL ELSE environ.EXTRACTORT_URL
ExpectedPath(route) ==
    CASE route = "extract" -> "/extract"
      [] route = "extract_batch" -> "/extract-batch"
      [] route = "extract_hashtag" -> "/extract/hashtag/"
      [] route = "extract_user" -> "/extract/user/"
      [] OTHER -> ""
AddressedToUpstream(r) ==
    /\ calls[r][1].base = ExpectedBase(request[r].route)
    /\ calls[r][1].path = ExpectedPath(request[r].route)
    /\ calls[r][1].arg = request[r].arg

C9_OneCallState ==
    \A r \in Requests :
        /\ request[r].route \in ProxyRoutes =>
              /\ Len(calls[r]) <= 1
              /\ Len(calls[r]) = 1 => AddressedToUpstream(r)
              /\ Done(r) =>
                    /\ Len(calls[r]) = 0
                          <=> (request[r].route \in PostRoutes /\ ~IsJson(request[r].body))
                    /\ Len(calls[r]) = 0 => reply[r].status = 400
                    /\ (Len(calls[r]) = 1 /\ OutcomeOf(r, 1).kind = "failure")
                          => reply[r].status = 500
        /\ request[r].route = "index" => Len(calls[r]) = 0
        /\ reply[r] # NoReply => Done(r)

C10_BothProbesInOrder ==
    \A r \in Requests : (Done(r) /\ request[r].route = "health_check") =>
        /\ Len(calls[r]) = 2
        /\ calls[r][1].base = environ.TWEET_EXTRACTOR_URL /\ calls[r][1].path = "/health"
        /\ calls[r][2].base = environ.EXTRACTORT_URL /\ calls[r][2].path = "/health"
====
